---- MODULE Spec2Model ----
(***************************************************************************)
(* Model of the LangGraph workflows of gestalt_question_generator.         *)
(*                                                                         *)
(*  - the code-validation refinement loop                                  *)
(*      src/langgraph_server/src/code_validation/graph.py                  *)
(*  - the top-level generator graph                                        *)
(*      src/langgraph_server/src/code_generator/graphs/gestalt_generator.py*)
(*      with the metadata graph it calls                                   *)
(*      src/langgraph_server/src/code_generator/graphs/                    *)
(*                                        question_metadata_graph.py       *)
(*                                                                         *)
(* A graph runs in supersteps: the nodes named by the edges of the nodes   *)
(* that just finished run next, their updates are merged with the          *)
(* per-field reducers, and a conditional edge's router is evaluated on the *)
(* state that already holds the update of the node it follows.  An edge to *)
(* END schedules nothing.  A node that raises ends the invocation with     *)
(* that exception and none of the pending updates is applied.              *)
(*                                                                         *)
(* Strings produced by the language model are drawn from small sets:       *)
(* artifacts are numbers (0 is the empty string ""), error messages are    *)
(* numbers 1..NumErrors.                                                   *)
(***************************************************************************)
EXTENDS Naturals, Sequences, FiniteSets

(***************************************************************************)
(* Bounds of the model.                                                    *)
(***************************************************************************)
\* number of distinct artifacts the generator model can answer with
NumCodes == 2
\* number of distinct error messages the critic can report
NumErrors == 2

(***************************************************************************)
(* Program constants.                                                      *)
(***************************************************************************)
\* graph.py:90   if state["refinement_count"] >= 3
MaxRefinements == 3

VARIABLES
    \* ---- code_validation.State (graph.py:24-30) ----
    prompt,             \* str
    generated_code,     \* str
    validation_errors,  \* Annotated[List[str], add]
    refinement_count,   \* int
    final_code,         \* str | None
    \* ---- executor of one invocation of code_validation graph ----
    pc,                 \* node that runs next, "END", "failed" ("idle": not invoked)
    error,              \* exception graph.invoke raises to its caller
    \* ---- history of the invocation (observations only) ----
    critic_raised,      \* the critic call of validate_code raised
    trace,              \* nodes that returned an update, in order
    verdicts,           \* error lists returned by the critic, in order
    artifacts,          \* codes returned by generate_code, in order
    gen_context,        \* errors put in the prompt of the latest generate_code
    \* ---- gestalt_generator.State (gestalt_generator.py:46-51) ----
    isAdaptive,         \* bool, supplied by the caller
    metadata,           \* QuestionMetaData | None
    question_html,      \* question.question_html
    files,              \* Annotated[dict, lambda a, b: {**a, **b}]
    \* ---- executor of one invocation of the top-level graph ----
    g_pc,               \* node or superstep that runs next, "END", "failed", "idle"
    g_running,          \* branch nodes of the fan-out superstep still running
    g_writes,           \* pending updates of the branch nodes that returned
    g_error,            \* exception app.invoke raises to its caller
    \* ---- history of the invocation (observations only) ----
    g_classified,       \* adaptivity flag the classification model answered
    g_dispatched,       \* what router returned
    g_executed,         \* nodes that returned an update, in order
    g_returned,         \* artifact each branch node returned
    \* ---- one invocation of the question-HTML, server-JS or solution-HTML
    \* ---- graph; its nodes invoke the refinement loop above ----
    s_graph,            \* which graph is invoked ("none": no invocation)
    s_caller,           \* who built the input state
    s_state,            \* the state dict: the fields that have a value
    s_pc,               \* node that runs next, "END", "failed", "idle"
    s_calling,          \* the node at s_pc is waiting for code_validation_graph
    s_error,            \* exception app.invoke raises to its caller
    \* ---- history of the invocation (observations only) ----
    s_executed,         \* nodes that returned an update, in order
    s_route,            \* what the latest router call returned
    s_dirty,            \* an earlier loop of this invocation collected errors
    \* ---- two sibling invocations of code_validation_graph ----
    sess,               \* session id -> state and history of that invocation
    \* ---- walk over the declared structure of one graph ----
    w_graph,            \* the graph walked ("none": no walk)
    w_mode,             \* which kinds of edges the walk follows
    w_visited           \* nodes reached from START so far

loopVars == <<prompt, generated_code, validation_errors, refinement_count,
              final_code, pc, error, critic_raised, trace, verdicts,
              artifacts, gen_context>>
genVars == <<isAdaptive, metadata, question_html, files, g_pc, g_running,
             g_writes, g_error, g_classified, g_dispatched, g_executed,
             g_returned>>
subVars == <<s_graph, s_caller, s_state, s_pc, s_calling, s_error,
             s_executed, s_route, s_dirty>>
sibVars == <<sess>>
walkVars == <<w_graph, w_mode, w_visited>>
vars == <<loopVars, genVars, subVars, sibVars, walkVars>>

(***************************************************************************)
(* Value sets.                                                             *)
(***************************************************************************)
Codes == 1..NumCodes
Errors == 1..NumErrors
Prompts == {"validate", "improve", "validate_server"}

\* the verdicts the critic can return (ValidationResult.errors): no error,
\* one error, or the two-error verdict made of the last and the first error
Verdicts ==
    {<<>>} \cup {<<e>> : e \in Errors}
           \cup {<<NumErrors, 1>>}

RECURSIVE Count(_, _)
Count(s, x) ==
    IF s = <<>> THEN 0
    ELSE (IF Head(s) = x THEN 1 ELSE 0) + Count(Tail(s), x)

Last(s) == s[Len(s)]

(***************************************************************************)
(* The refinement loop: code_validation/graph.py                           *)
(***************************************************************************)

\* variant of GenerateGoto: only the static edge generate_code -> END of
\* graph.py:127 is honoured
GenerateGoto_only_static_edge == "END"

\* variant of StartNode: the graph starts with generation, as the comment of
\* graph.py:115 says
StartNode_generation_first == "generate_code"

\* graph.py:116   workflow.add_edge(START, "validate_code")
StartNode == "validate_code"

\* graph.py:53    Command(..., goto="validate_code"); the static edge
\* generate_code -> END of graph.py:127 schedules nothing
GenerateGoto == "validate_code"

\* graph.py:36-39  errors enter the prompt only when refinement_count > 0
refinement_context(count, errs) ==
    IF count > 0 THEN errs ELSE <<>>

\* variant of add: validation_errors has no reducer, an update replaces it
add_overwrite(a, b) == b

\* variant of add: the update is put in front of the errors collected so far
add_prepend(a, b) == b \o a

\* graph.py:27    the reducer of validation_errors is operator.add
add(a, b) == a \o b

\* variant of next_count: the counter is incremented twice per generation
next_count_by_two(count) == count + 2

\* graph.py:51    "refinement_count": state["refinement_count"] + 1
next_count(count) == count + 1

\* variant of should_refine: the ceiling test is > instead of >=
should_refine_off_by_one(count, errs) ==
    IF count > MaxRefinements THEN "accept"
    ELSE IF errs = <<>> THEN "accept"
    ELSE "generate_code"

\* variant of should_refine: there is no retry ceiling
should_refine_no_ceiling(count, errs) ==
    IF errs = <<>> THEN "accept" ELSE "generate_code"

\* graph.py:86-98
should_refine(count, errs) ==
    IF count >= MaxRefinements THEN "accept"
    ELSE IF errs = <<>> THEN "accept"
    ELSE "generate_code"

\* variant of router_view: the router is evaluated on the state the node read
router_view_pre_update(before, after) == before

\* graph.py:119-126  a conditional edge is evaluated after the update of the
\* node it follows has been merged
router_view(before, after) == after

\* variant of accept_value: accept_code returns the final_code it was given
accept_value_stale(code, final) == final

\* graph.py:101-104  the value accept_code writes to final_code
accept_value(code, final) == code

\* the input states the callers build: server_js_graph.py:121-132, 143-158,
\* solution_html_graph.py:103-130, 147-156
InitLoop ==
    /\ prompt \in Prompts
    /\ generated_code \in {0, 1}
    /\ validation_errors = <<>>
    /\ refinement_count = 0
    /\ final_code = 0
    /\ pc = StartNode
    /\ error = "none"
    /\ critic_raised = FALSE
    /\ trace = <<>>
    /\ verdicts = <<>>
    /\ artifacts = <<>>
    /\ gen_context = <<>>

\* variant of GenerateCode: the update of generate_code also clears
\* validation_errors
GenerateCode_clears_errors ==
    /\ pc = "generate_code"
    /\ \E code \in Codes :
        /\ generated_code' = code
        /\ artifacts' = Append(artifacts, code)
    /\ gen_context' = refinement_context(refinement_count, validation_errors)
    /\ refinement_count' = next_count(refinement_count)
    /\ validation_errors' = <<>>
    /\ pc' = GenerateGoto
    /\ trace' = Append(trace, "generate_code")
    /\ UNCHANGED <<prompt, final_code, error, critic_raised, verdicts>>
    /\ UNCHANGED <<genVars, subVars, sibVars, walkVars>>

\* graph.py:33-54  generate_code returns its Command
GenerateCode ==
    /\ pc = "generate_code"
    /\ \E code \in Codes :
        /\ generated_code' = code
        /\ artifacts' = Append(artifacts, code)
    /\ gen_context' = refinement_context(refinement_count, validation_errors)
    /\ refinement_count' = next_count(refinement_count)
    /\ pc' = GenerateGoto
    /\ trace' = Append(trace, "generate_code")
    /\ UNCHANGED <<prompt, validation_errors, final_code, error,
                   critic_raised, verdicts>>
    /\ UNCHANGED <<genVars, subVars, sibVars, walkVars>>

\* graph.py:44-46  structured_model.invoke or model_validate raises
GenerateCodeRaises ==
    /\ pc = "generate_code"
    /\ pc' = "failed"
    /\ error' = "GeneratorError"
    /\ UNCHANGED <<prompt, generated_code, validation_errors, refinement_count,
                   final_code, critic_raised, trace, verdicts, artifacts,
                   gen_context>>
    /\ UNCHANGED <<genVars, subVars, sibVars, walkVars>>

\* graph.py:57-83 validate_code returns its Command, the update is merged,
\* and graph.py:119-126 routes with should_refine on the merged state
ValidateCode ==
    /\ pc = "validate_code"
    /\ \E errs \in Verdicts :
        /\ validation_errors' = add(validation_errors, errs)
        /\ verdicts' = Append(verdicts, errs)
    /\ pc' = should_refine(refinement_count,
                            router_view(validation_errors, validation_errors'))
    /\ trace' = Append(trace, "validate_code")
    /\ UNCHANGED <<prompt, generated_code, refinement_count, final_code,
                   error, critic_raised, artifacts, gen_context>>
    /\ UNCHANGED <<genVars, subVars, sibVars, walkVars>>

\* graph.py:76-78  evaluator_model.invoke or model_validate raises; nothing
\* in validate_code, in the graph or in the callers catches it
ValidateCodeRaises ==
    /\ pc = "validate_code"
    /\ pc' = "failed"
    /\ error' = "CriticError"
    /\ critic_raised' = TRUE
    /\ UNCHANGED <<prompt, generated_code, validation_errors, refinement_count,
                   final_code, trace, verdicts, artifacts, gen_context>>
    /\ UNCHANGED <<genVars, subVars, sibVars, walkVars>>

\* graph.py:101-104 accept_code, then graph.py:128 accept -> END
AcceptCode ==
    /\ pc = "accept"
    /\ final_code' = accept_value(generated_code, final_code)
    /\ pc' = "END"
    /\ trace' = Append(trace, "accept")
    /\ UNCHANGED <<prompt, generated_code, validation_errors, refinement_count,
                   error, critic_raised, verdicts, artifacts, gen_context>>
    /\ UNCHANGED <<genVars, subVars, sibVars, walkVars>>

genCount == Len(artifacts)
validateCount == Len(verdicts)
acceptCount == Count(trace, "accept")

(***************************************************************************)
(* The top-level generator: code_generator/graphs/gestalt_generator.py     *)
(***************************************************************************)

\* Optional values: None is <<>>, a value x is <<x>>
None == <<>>
Some(x) == <<x>>

\* variant of merge_files: files has no reducer, an update replaces it
merge_files_overwrite(a, b) == b

\* gestalt_generator.py:51  the reducer of files: lambda a, b: {**a, **b}
merge_files(a, b) ==
    [k \in DOMAIN a \cup DOMAIN b |-> IF k \in DOMAIN b THEN b[k] ELSE a[k]]

\* a dict with the one entry k: v
Entry(k, v) == [x \in {k} |-> v]
EmptyDict == [x \in {} |-> 0]

\* variant of metadata_isAdaptive: the input flag does not override
metadata_isAdaptive_no_override(classified, inputAdaptive) == classified

\* question_metadata_graph.py:55-60  the flag of the metadata the metadata
\* graph returns: the model's classification, overridden by the input
\* isAdaptive when that is not None
metadata_isAdaptive(classified, inputAdaptive) ==
    IF inputAdaptive # None THEN inputAdaptive[1] ELSE classified

\* variant of classify_result: classify_question returns no metadata
classify_result_dropped(meta) == None

\* gestalt_generator.py:58  return {"metadata": result["metadata"]}
classify_result(meta) == meta

\* variant of updated_question: generate_question_html returns the files
\* entry only, the question keeps the question_html of the input
updated_question_kept_input(old, code) == old

\* gestalt_generator.py:75-81  the question_html of the question that
\* generate_question_html returns: state["question"].model_copy(update=...)
updated_question(old, code) == code

\* gestalt_generator.py:55  input_state = {"question": ..., "metadata": None}:
\* isAdaptive is not passed on, so the metadata graph's State defaults it to
\* None (question_metadata_graph.py:43-46)
classify_input_isAdaptive(adaptive) == None

\* variant of router: the flag is read from the metadata
router_reads_metadata(adaptive, meta) ==
    IF meta[1].isAdaptive
    THEN <<"generate_server_py", "generate_server_js", "generate_solution_html">>
    ELSE <<"generate_solution_html">>

\* gestalt_generator.py:153-163  router; meta is state["metadata"], which it
\* only asserts
router(adaptive, meta) ==
    IF adaptive
    THEN <<"generate_server_py", "generate_server_js", "generate_solution_html">>
    ELSE <<"generate_solution_html">>

\* variant of branch_file: generate_server_py writes under the key of
\* generate_server_js
branch_file_shared_key(node) ==
    CASE node = "generate_solution_html" -> "solution.html"
      [] node = "generate_server_js" -> "server.js"
      [] node = "generate_server_py" -> "server.js"

\* variant of branch_file: generate_server_js writes under the key of
\* generate_server_py
branch_file_js_writes_py(node) ==
    CASE node = "generate_solution_html" -> "solution.html"
      [] node = "generate_server_js" -> "server.py"
      [] node = "generate_server_py" -> "server.py"

\* gestalt_generator.py:99, 116, 133  the files key each branch node writes
branch_file(node) ==
    CASE node = "generate_solution_html" -> "solution.html"
      [] node = "generate_server_js" -> "server.js"
      [] node = "generate_server_py" -> "server.py"

\* gestalt_generator.py:184-188  the targets declared for the conditional edge
BranchNodes == {"generate_solution_html", "generate_server_js", "generate_server_py"}

\* variant of info_json: the rollup follows the flag of the metadata
info_json_from_metadata(adaptive, meta) ==
    [ai_generated |-> TRUE,
     isAdaptive |-> meta.isAdaptive,
     languages |-> IF meta.isAdaptive THEN <<"javascript", "python">> ELSE <<>>]

\* gestalt_generator.py:136-150  the rollup generate_info_json serialises
info_json(adaptive, meta) ==
    [ai_generated |-> TRUE,
     isAdaptive |-> IF adaptive THEN TRUE ELSE FALSE,
     languages |-> IF adaptive THEN <<"javascript", "python">> ELSE <<>>]

\* variant of info_json_update: the aggregation node also rewrites the
\* question.html entry
info_json_update_rewrites_question(adaptive, meta) ==
    merge_files(Entry("info.json", info_json(adaptive, meta)),
                Entry("question.html", 0))

\* gestalt_generator.py:150  the update generate_info_json returns
info_json_update(adaptive, meta) ==
    Entry("info.json", info_json(adaptive, meta))

Range(s) == {s[i] : i \in DOMAIN s}

\* the updates of one superstep are applied in the order of the task paths,
\* that is of the node names, whatever the order the nodes returned in
TaskOrder == <<"generate_server_js", "generate_server_py", "generate_solution_html">>

RECURSIVE apply_writes(_, _, _)
apply_writes(base, writes, order) ==
    IF order = <<>> THEN base
    ELSE apply_writes(IF Head(order) \in DOMAIN writes
                      THEN merge_files(base, writes[Head(order)])
                      ELSE base,
                      writes, Tail(order))

\* variant of join_ready: generate_info_json is scheduled as soon as one of
\* its predecessors has returned
join_ready_first_branch(running) == TRUE

\* gestalt_generator.py:191-193  the three edges into generate_info_json
\* come from nodes of one superstep: it is scheduled once, when the
\* superstep is over
join_ready(running) == running = {}

\* agent_module.py:108-113  the input state generate_gestalt_module builds
InitGen ==
    /\ isAdaptive \in BOOLEAN
    /\ metadata = None
    /\ question_html = 0
    /\ files = EmptyDict
    /\ g_pc = "classify_question"
    /\ g_running = {}
    /\ g_writes = EmptyDict
    /\ g_error = "none"
    /\ g_classified = None
    /\ g_dispatched = <<>>
    /\ g_executed = <<>>
    /\ g_returned = EmptyDict

\* gestalt_generator.py:54-58, 177-178
ClassifyQuestion ==
    /\ g_pc = "classify_question"
    /\ \E classified \in BOOLEAN :
        /\ g_classified' = Some(classified)
        /\ metadata' = classify_result(Some([isAdaptive |->
               metadata_isAdaptive(classified, classify_input_isAdaptive(isAdaptive))]))
    /\ g_pc' = "generate_question_html"
    /\ g_executed' = Append(g_executed, "classify_question")
    /\ UNCHANGED <<isAdaptive, question_html, files, g_running, g_writes,
                   g_error, g_dispatched>>
    /\ UNCHANGED g_returned
    /\ UNCHANGED <<loopVars, subVars, sibVars, walkVars>>

\* gestalt_generator.py:56  the metadata graph raises
\* (question_metadata_graph.py:55-56)
ClassifyQuestionRaises ==
    /\ g_pc = "classify_question"
    /\ g_pc' = "failed"
    /\ g_error' = "TaskError"
    /\ UNCHANGED <<isAdaptive, metadata, question_html, files, g_running,
                   g_writes, g_classified, g_dispatched, g_executed>>
    /\ UNCHANGED g_returned
    /\ UNCHANGED <<loopVars, subVars, sibVars, walkVars>>

\* gestalt_generator.py:61-82 generate_question_html returns, its update is
\* merged, and gestalt_generator.py:181-189 routes with router on the merged
\* state: the nodes it names form the next superstep
GenerateQuestionHtml ==
    /\ g_pc = "generate_question_html"
    /\ metadata # None
    /\ \E code \in Codes :
        /\ question_html' = updated_question(question_html, code)
        /\ files' = merge_files(files, Entry("question.html", code))
    /\ g_dispatched' = router(isAdaptive, metadata)
    /\ g_running' = Range(g_dispatched')
    /\ g_pc' = "branches"
    /\ g_executed' = Append(g_executed, "generate_question_html")
    /\ UNCHANGED <<isAdaptive, metadata, g_writes, g_error, g_classified>>
    /\ UNCHANGED g_returned
    /\ UNCHANGED <<loopVars, subVars, sibVars, walkVars>>

\* gestalt_generator.py:63 the assertion fails, or gestalt_generator.py:73
\* the question-HTML graph raises
GenerateQuestionHtmlRaises ==
    /\ g_pc = "generate_question_html"
    /\ g_pc' = "failed"
    /\ g_error' = IF metadata = None THEN "AssertionError" ELSE "TaskError"
    /\ UNCHANGED <<isAdaptive, metadata, question_html, files, g_running,
                   g_writes, g_classified, g_dispatched, g_executed>>
    /\ UNCHANGED g_returned
    /\ UNCHANGED <<loopVars, subVars, sibVars, walkVars>>

\* gestalt_generator.py:85-133  a dispatched branch node returns its update;
\* the update waits for the end of the superstep
BranchReturns(node) ==
    /\ g_pc = "branches"
    /\ node \in g_running
    /\ metadata # None
    /\ \E code \in Codes :
        /\ g_writes' = merge_files(g_writes, Entry(node, Entry(branch_file(node), code)))
        /\ g_returned' = merge_files(g_returned, Entry(node, code))
    /\ g_running' = g_running \ {node}
    /\ g_executed' = Append(g_executed, node)
    /\ UNCHANGED <<isAdaptive, metadata, question_html, files, g_pc, g_error,
                   g_classified, g_dispatched>>
    /\ UNCHANGED <<loopVars, subVars, sibVars, walkVars>>

\* variant of BranchRaises: the node catches the failure of its sub-graph
\* and returns no update
BranchRaises_swallowed(node) ==
    /\ g_pc = "branches"
    /\ node \in g_running
    /\ g_error' = "TaskError"
    /\ g_running' = g_running \ {node}
    /\ UNCHANGED <<isAdaptive, metadata, question_html, files, g_pc, g_writes,
                   g_classified, g_dispatched, g_executed, g_returned>>
    /\ UNCHANGED <<loopVars, subVars, sibVars, walkVars>>

\* gestalt_generator.py:97, 114, 131  the sub-graph of a branch node raises:
\* the superstep fails and the updates of its siblings are not applied
BranchRaises(node) ==
    /\ g_pc = "branches"
    /\ node \in g_running
    /\ g_pc' = "failed"
    /\ g_error' = IF metadata = None THEN "AssertionError" ELSE "TaskError"
    /\ g_running' = {}
    /\ g_writes' = EmptyDict
    /\ UNCHANGED <<isAdaptive, metadata, question_html, files, g_classified,
                   g_dispatched, g_executed>>
    /\ UNCHANGED g_returned
    /\ UNCHANGED <<loopVars, subVars, sibVars, walkVars>>

\* end of the fan-out superstep: the branch updates are merged into files
\* and gestalt_generator.py:191-193 schedule generate_info_json
MergeBranches ==
    /\ g_pc = "branches"
    /\ join_ready(g_running)
    /\ files' = apply_writes(files, g_writes, TaskOrder)
    /\ g_writes' = EmptyDict
    /\ g_pc' = "generate_info_json"
    /\ UNCHANGED <<isAdaptive, metadata, question_html, g_running, g_error,
                   g_classified, g_dispatched, g_executed>>
    /\ UNCHANGED g_returned
    /\ UNCHANGED <<loopVars, subVars, sibVars, walkVars>>

\* gestalt_generator.py:136-150, 195
GenerateInfoJson ==
    /\ g_pc = "generate_info_json"
    /\ metadata # None
    /\ files' = merge_files(files, info_json_update(isAdaptive, metadata[1]))
    /\ g_pc' = "END"
    /\ g_executed' = Append(g_executed, "generate_info_json")
    /\ UNCHANGED <<isAdaptive, metadata, question_html, g_running, g_writes,
                   g_error, g_classified, g_dispatched>>
    /\ UNCHANGED g_returned
    /\ UNCHANGED <<loopVars, subVars, sibVars, walkVars>>

(***************************************************************************)
(* The graphs that wrap the refinement loop:                               *)
(*   code_generator/graphs/question_html_graph.py                          *)
(*   code_generator/graphs/server_js_graph.py                              *)
(*   code_generator/graphs/solution_html_graph.py                          *)
(* A state dict holds the fields that were given a value: a field of the   *)
(* schema that neither the input state nor a node has written is absent,   *)
(* and reading it raises KeyError.  Strings are numbers, 0 for "" and None.*)
(***************************************************************************)
SubGraphs == {"question_html", "server_js", "solution_html"}

\* who invokes the compiled apps: the nodes of gestalt_generator.py:61-116,
\* the tools of agent_simple.py:130-146, 255-271, and a client that passes
\* every field of the schema, as the __main__ blocks do
Callers == {"gestalt_generator", "agent_simple", "client"}

\* question_html_graph.py:54, server_js_graph.py:67, solution_html_graph.py:50
ArtifactField(g) ==
    CASE g = "question_html" -> "question_html"
      [] g = "server_js" -> "server_js"
      [] g = "solution_html" -> "solution_html"

\* the input states: gestalt_generator.py:65-71, 89-95, 106-112,
\* agent_simple.py:136-142, 261-267, solution_html_graph.py:198-205.
\* Only the client supplies server_file.
InputState(g, caller, guide, adaptive, server) ==
    LET common == [question |-> [solution_guide |-> guide,
                                 question_html |-> IF g = "question_html" THEN 0 ELSE 1],
                   isAdaptive |-> adaptive,
                   retrieved_documents |-> <<>>,
                   formatted_examples |-> 0]
        withArtifact == merge_files(common, Entry(ArtifactField(g), 0))
    IN  IF g = "solution_html" /\ caller = "client"
        THEN merge_files(withArtifact, Entry("server_file", server))
        ELSE withArtifact

\* the code the generator of a wrapping graph returns (response.code)
FirstDraft == 1

\* variant of RetrieveGoto: only the static edge retrieve_examples -> END is
\* honoured
RetrieveGoto_only_static_edge == "END"

\* question_html_graph.py:77-80, server_js_graph.py:88-91,
\* solution_html_graph.py:70-73  Command(..., goto="generate_code"); the
\* static edge retrieve_examples -> END schedules nothing
RetrieveGoto == "generate_code"

\* variant of solution_present_js: the solution guide is not looked at
solution_present_js_always_validates(st) == "validate_solution"

\* server_js_graph.py:112-115
solution_present_js(st) ==
    IF st["question"].solution_guide # 0 THEN "validate_solution" ELSE "improve_code"

\* solution_html_graph.py:92-95
solution_present_html(st) ==
    IF st["question"].solution_guide # 0 THEN "validate_solution" ELSE "END"

\* variant of server_present: a server_file that is present but empty also
\* routes to validate_server
server_present_ignores_value(st) ==
    IF "server_file" \notin DOMAIN st THEN "KeyError" ELSE "validate_server"

\* solution_html_graph.py:138-141; state["server_file"] raises KeyError when
\* the field is absent
server_present(st) ==
    IF "server_file" \notin DOMAIN st THEN "KeyError"
    ELSE IF st["server_file"] # 0 THEN "validate_server" ELSE "END"

\* the keys of the mappings of the conditional edges:
\* server_js_graph.py:177-181, solution_html_graph.py:173-182
MappingKeys(g, from) ==
    CASE g = "server_js" /\ from = "generate_code" -> {"improve_code", "validate_solution"}
      [] g = "solution_html" /\ from = "generate_code" -> {"END", "validate_solution"}
      [] g = "solution_html" /\ from = "validate_solution" -> {"END", "validate_server"}
      [] OTHER -> {}

\* what the router after node `from` returns on state st ("static": the node
\* has no conditional edge)
Route(g, from, st) ==
    CASE g = "server_js" /\ from = "generate_code" -> solution_present_js(st)
      [] g = "solution_html" /\ from = "generate_code" -> solution_present_html(st)
      [] g = "solution_html" /\ from = "validate_solution" -> server_present(st)
      [] OTHER -> "static"

\* the static successor of a node without conditional edge:
\* server_js_graph.py:182-183, solution_html_graph.py:184; generate_code of
\* the question-HTML graph has no edge at all (question_html_graph.py:101-102)
StaticNext(g, from) ==
    IF g = "server_js" /\ from = "validate_solution" THEN "improve_code" ELSE "END"

\* the nodes that invoke code_validation_graph:
\* server_js_graph.py:118-165, solution_html_graph.py:98-162
LoopNodes == {"validate_solution", "improve_code", "validate_server"}

\* the prompt each of them builds
LoopPrompt(node) ==
    CASE node = "validate_solution" -> "validate"
      [] node = "improve_code" -> "improve"
      [] node = "validate_server" -> "validate_server"

\* the fields of the state a node reads before it does anything else
NodeReads(g, node) ==
    CASE node = "retrieve_examples" -> {"question", "isAdaptive"}
      [] node = "generate_code" -> {"question", "formatted_examples"}
      [] node = "validate_solution" -> {"question", ArtifactField(g)}
      [] node = "improve_code" -> {}
      [] node = "validate_server" -> {"server_file", ArtifactField(g)}
      [] OTHER -> {}

\* variant of restored_errors: the graph is compiled with a checkpointer and
\* every invocation runs on the same thread_id, so the channels of the
\* previous invocation are restored before the input is applied
restored_errors_checkpointed(previous) == previous

\* graph.py:131  graph = workflow.compile(): no checkpointer, the channels of
\* an invocation start empty whatever an earlier invocation left
restored_errors(previous) == <<>>

\* agent_simple.py:82-89, 136-143, 261-268, gestalt_generator.py:61-116,
\* solution_html_graph.py:191-206.  The input of a client differs from the
\* input of the other callers in the solution-HTML graph only; the server-JS
\* tool fixes isAdaptive to True
InitSub ==
    /\ s_graph \in SubGraphs
    /\ s_caller \in Callers
    /\ s_caller = "client" => s_graph = "solution_html"
    /\ \E guide \in {0, 1}, adaptive \in BOOLEAN, server \in {0, 1} :
        /\ s_graph = "server_js" => adaptive
        /\ (s_graph # "solution_html" \/ s_caller # "client") => server = 0
        /\ s_graph = "question_html" => guide = 0
        /\ s_state = InputState(s_graph, s_caller, guide, adaptive, server)
    /\ s_pc = "retrieve_examples"
    /\ s_calling = FALSE
    /\ s_error = "none"
    /\ s_executed = <<>>
    /\ s_route = "none"
    /\ s_dirty = FALSE

\* question_html_graph.py:60-80, server_js_graph.py:73-91,
\* solution_html_graph.py:57-73: retrieve_examples returns its Command; the
\* static edge retrieve_examples -> END schedules nothing
RetrieveExamples ==
    /\ s_pc = "retrieve_examples"
    /\ NodeReads(s_graph, "retrieve_examples") \subseteq DOMAIN s_state
    /\ s_state' = [s_state EXCEPT
                     !["formatted_examples"] = 1,
                     !["retrieved_documents"] = add(@, <<1, 2>>)]
    /\ s_pc' = RetrieveGoto
    /\ s_executed' = Append(s_executed, "retrieve_examples")
    /\ UNCHANGED <<s_graph, s_caller, s_calling, s_error, s_route, s_dirty>>
    /\ UNCHANGED <<loopVars, genVars, sibVars, walkVars>>

\* vector_store.similarity_search raises
RetrieveExamplesRaises ==
    /\ s_pc = "retrieve_examples"
    /\ s_pc' = "failed"
    /\ s_error' = "TaskError"
    /\ UNCHANGED <<s_graph, s_caller, s_state, s_calling, s_executed, s_route,
                   s_dirty>>
    /\ UNCHANGED <<loopVars, genVars, sibVars, walkVars>>

\* question_html_graph.py:83-93, server_js_graph.py:94-109,
\* solution_html_graph.py:76-89: generate_code returns its update, which is
\* merged, and the conditional edge of the graph, if any, routes
SubGenerateCode ==
    /\ s_pc = "generate_code"
    /\ NodeReads(s_graph, "generate_code") \subseteq DOMAIN s_state
    /\ s_state' = [s_state EXCEPT ![ArtifactField(s_graph)] = FirstDraft]
    /\ LET r == Route(s_graph, "generate_code", s_state')
       IN  /\ s_route' = IF r = "static" THEN s_route ELSE r
           /\ s_pc' = IF r = "static" THEN StaticNext(s_graph, "generate_code") ELSE r
    /\ s_executed' = Append(s_executed, "generate_code")
    /\ UNCHANGED <<s_graph, s_caller, s_calling, s_error, s_dirty>>
    /\ UNCHANGED <<loopVars, genVars, sibVars, walkVars>>

\* structured_model.invoke or model_validate raises
SubGenerateCodeRaises ==
    /\ s_pc = "generate_code"
    /\ s_pc' = "failed"
    /\ s_error' = "TaskError"
    /\ UNCHANGED <<s_graph, s_caller, s_state, s_calling, s_executed, s_route,
                   s_dirty>>
    /\ UNCHANGED <<loopVars, genVars, sibVars, walkVars>>

\* server_js_graph.py:118-135, 142-161, solution_html_graph.py:98-132,
\* 144-159: the node builds the input state of the loop and calls
\* code_validation_graph.invoke
InvokeRefinement(node) ==
    /\ node \in LoopNodes
    /\ s_pc = node
    /\ ~s_calling
    /\ NodeReads(s_graph, node) \subseteq DOMAIN s_state
    /\ s_calling' = TRUE
    /\ prompt' = LoopPrompt(node)
    /\ generated_code' = s_state[ArtifactField(s_graph)]
    /\ validation_errors' = add(restored_errors(validation_errors), <<>>)
    /\ refinement_count' = 0
    /\ final_code' = 0
    /\ pc' = StartNode
    /\ error' = "none"
    /\ critic_raised' = FALSE
    /\ trace' = <<>>
    /\ verdicts' = <<>>
    /\ artifacts' = <<>>
    /\ gen_context' = <<>>
    /\ UNCHANGED <<s_graph, s_caller, s_state, s_pc, s_error, s_executed,
                   s_route, s_dirty>>
    /\ UNCHANGED <<genVars, sibVars, walkVars>>

\* variant of RefinementFails: the node catches the failure of the loop and
\* returns without an update
RefinementFails_caught(node) ==
    /\ node \in LoopNodes
    /\ s_pc = node
    /\ s_calling
    /\ pc = "failed"
    /\ s_calling' = FALSE
    /\ s_error' = error
    /\ s_pc' = StaticNext(s_graph, node)
    /\ s_executed' = Append(s_executed, node)
    /\ UNCHANGED <<s_graph, s_caller, s_state, s_route, s_dirty>>
    /\ UNCHANGED <<loopVars, genVars, sibVars, walkVars>>

\* server_js_graph.py:135, 161, solution_html_graph.py:132, 159:
\* code_validation_graph.invoke raises and the node has no handler
RefinementFails(node) ==
    /\ node \in LoopNodes
    /\ s_pc = node
    /\ s_calling
    /\ pc = "failed"
    /\ s_pc' = "failed"
    /\ s_error' = error
    /\ UNCHANGED <<s_graph, s_caller, s_state, s_calling, s_executed, s_route,
                   s_dirty>>
    /\ UNCHANGED <<loopVars, genVars, sibVars, walkVars>>

\* server_js_graph.py:137-139, 163-165, solution_html_graph.py:133-135,
\* 160-162: the loop returned, the node writes final_code to the artifact
\* field, the update is merged, and the edges of the node are followed:
\* server_js_graph.py:182-183, solution_html_graph.py:178-184.  A router that
\* raises fails the task and with it the invocation
NodeReturns(node) ==
    /\ node \in LoopNodes
    /\ s_pc = node
    /\ s_calling
    /\ pc = "END"
    /\ s_calling' = FALSE
    /\ s_executed' = Append(s_executed, node)
    /\ s_dirty' = (s_dirty \/ validation_errors # <<>>)
    /\ LET post == [s_state EXCEPT ![ArtifactField(s_graph)] = final_code]
           r == Route(s_graph, node, post)
       IN  /\ s_state' = IF r = "KeyError" THEN s_state ELSE post
           /\ s_route' = IF r = "static" THEN s_route ELSE r
           /\ s_pc' = IF r = "static" THEN StaticNext(s_graph, node)
                      ELSE IF r = "KeyError" THEN "failed" ELSE r
           /\ s_error' = IF r = "KeyError" THEN "KeyError" ELSE s_error
    /\ UNCHANGED <<s_graph, s_caller>>
    /\ UNCHANGED <<loopVars, genVars, sibVars, walkVars>>

\* question_metadata_graph.py:37-46, 64-74: an invocation of the metadata
\* graph.  State is a pydantic model, so metadata and isAdaptive are None
\* when the input leaves them out, as classify_question does
\* (gestalt_generator.py:55); a client may pass either flag
InitMeta ==
    /\ s_graph = "question_metadata"
    /\ s_caller \in {"gestalt_generator", "client"}
    /\ \E adaptive \in {None, Some(TRUE), Some(FALSE)} :
        /\ s_caller = "gestalt_generator" => adaptive = classify_input_isAdaptive(TRUE)
        /\ s_state = [question |-> [solution_guide |-> 0, question_html |-> 0],
                      metadata |-> None,
                      isAdaptive |-> adaptive]
    /\ s_pc = "generate_question_metadata"
    /\ s_calling = FALSE
    /\ s_error = "none"
    /\ s_executed = <<>>
    /\ s_route = "none"
    /\ s_dirty = FALSE

\* question_metadata_graph.py:49-62, 70: the model classifies, the input
\* flag overrides, and the graph ends
GenerateQuestionMetadata ==
    /\ s_pc = "generate_question_metadata"
    /\ \E classified \in BOOLEAN :
        /\ g_classified' = Some(classified)
        /\ s_state' = [s_state EXCEPT !["metadata"] =
                Some([isAdaptive |->
                        metadata_isAdaptive(classified, s_state["isAdaptive"])])]
    /\ s_pc' = "END"
    /\ s_executed' = Append(s_executed, "generate_question_metadata")
    /\ UNCHANGED <<s_graph, s_caller, s_calling, s_error, s_route, s_dirty>>
    /\ UNCHANGED <<isAdaptive, metadata, question_html, files, g_pc, g_running,
                   g_writes, g_error, g_dispatched, g_executed, g_returned>>
    /\ UNCHANGED <<loopVars, sibVars, walkVars>>

\* question_metadata_graph.py:55-56: structured_model.invoke or
\* model_validate raises
GenerateQuestionMetadataRaises ==
    /\ s_pc = "generate_question_metadata"
    /\ s_pc' = "failed"
    /\ s_error' = "TaskError"
    /\ UNCHANGED <<s_graph, s_caller, s_state, s_calling, s_executed, s_route,
                   s_dirty>>
    /\ UNCHANGED <<loopVars, genVars, sibVars, walkVars>>

\* no invocation of one of the three graphs
SubIdle ==
    /\ s_graph = "none"
    /\ s_caller = "none"
    /\ s_state = EmptyDict
    /\ s_pc = "idle"
    /\ s_calling = FALSE
    /\ s_error = "none"
    /\ s_executed = <<>>
    /\ s_route = "none"
    /\ s_dirty = FALSE

(***************************************************************************)
(* Sibling branches of the top-level generator that are inside             *)
(* code_validation_graph.invoke at the same time                           *)
(* (gestalt_generator.py:85-116 through server_js_graph.py:135 and         *)
(* solution_html_graph.py:159).  Each invoke call owns the channels it     *)
(* creates from its input state; the compiled graph holds none.            *)
(***************************************************************************)
Sessions == {"generate_server_js", "generate_solution_html"}

\* the one error the critic reports to a session, so that an error seen in
\* the wrong session can be told
SessionError(b) == IF b = "generate_server_js" THEN 1 ELSE 2

\* server_js_graph.py:121-133, solution_html_graph.py:147-157
InitSiblings ==
    sess = [b \in Sessions |-> [pc |-> StartNode,
                                refinement_count |-> 0,
                                validation_errors |-> <<>>,
                                gens |-> 0,
                                reported |-> 0]]

\* graph.py:57-98 in the session of branch b
SiblingValidate(b) ==
    /\ b \in DOMAIN sess
    /\ sess[b].pc = "validate_code"
    /\ \E v \in {<<>>, <<SessionError(b)>>} :
        LET errs == add(sess[b].validation_errors, v)
        IN  sess' = [sess EXCEPT
                       ![b].validation_errors = errs,
                       ![b].reported = @ + Len(v),
                       ![b].pc = should_refine(sess[b].refinement_count, errs)]
    /\ UNCHANGED <<loopVars, genVars, subVars, walkVars>>

\* graph.py:33-54 in the session of branch b
SiblingGenerate(b) ==
    /\ b \in DOMAIN sess
    /\ sess[b].pc = "generate_code"
    /\ sess' = [sess EXCEPT
                  ![b].refinement_count = next_count(@),
                  ![b].gens = @ + 1,
                  ![b].pc = GenerateGoto]
    /\ UNCHANGED <<loopVars, genVars, subVars, walkVars>>

\* graph.py:101-104, 128 in the session of branch b
SiblingAccept(b) ==
    /\ b \in DOMAIN sess
    /\ sess[b].pc = "accept"
    /\ sess' = [sess EXCEPT ![b].pc = "END"]
    /\ UNCHANGED <<loopVars, genVars, subVars, walkVars>>

\* no sibling sessions
SibIdle == sess = EmptyDict

(***************************************************************************)
(* The graphs as declared: nodes, static edges, conditional-edge mappings  *)
(* and the goto targets of the Commands the nodes return.                  *)
(***************************************************************************)
Graphs ==
    {"code_validation", "question_html", "server_js", "solution_html",
     "question_metadata", "gestalt_generator"}

\* the add_node calls: graph.py:111-113, question_html_graph.py:98-99,
\* server_js_graph.py:170-173, solution_html_graph.py:167-170,
\* question_metadata_graph.py:67, gestalt_generator.py:170-175
GraphNodes(g) ==
    CASE g = "code_validation" -> {"generate_code", "validate_code", "accept"}
      [] g = "question_html" -> {"retrieve_examples", "generate_code"}
      [] g = "server_js" ->
            {"retrieve_examples", "generate_code", "validate_solution", "improve_code"}
      [] g = "solution_html" ->
            {"retrieve_examples", "generate_code", "validate_solution", "validate_server"}
      [] g = "question_metadata" -> {"generate_question_metadata"}
      [] g = "gestalt_generator" ->
            {"classify_question", "generate_question_html"} \cup BranchNodes
                \cup {"generate_info_json"}

\* the add_edge calls: graph.py:116, 127-128, question_html_graph.py:101-102,
\* server_js_graph.py:176, 182-184, solution_html_graph.py:172, 183-185,
\* question_metadata_graph.py:69-70, gestalt_generator.py:177-178, 191-195
StaticEdges(g) ==
    CASE g = "code_validation" ->
            {<<"START", StartNode>>, <<"generate_code", "END">>, <<"accept", "END">>}
      [] g = "question_html" ->
            {<<"START", "retrieve_examples">>, <<"retrieve_examples", "END">>}
      [] g = "server_js" ->
            {<<"START", "retrieve_examples">>, <<"validate_solution", "improve_code">>,
             <<"improve_code", "END">>, <<"retrieve_examples", "END">>}
      [] g = "solution_html" ->
            {<<"START", "retrieve_examples">>, <<"validate_solution", "END">>,
             <<"validate_server", "END">>, <<"retrieve_examples", "END">>}
      [] g = "question_metadata" ->
            {<<"START", "generate_question_metadata">>,
             <<"generate_question_metadata", "END">>}
      [] g = "gestalt_generator" ->
            {<<"START", "classify_question">>,
             <<"classify_question", "generate_question_html">>,
             <<"generate_info_json", "END">>}
                \cup {<<b, "generate_info_json">> : b \in BranchNodes}

\* the add_conditional_edges calls: graph.py:119-126,
\* server_js_graph.py:177-181, solution_html_graph.py:173-182,
\* gestalt_generator.py:181-189
ConditionalEdges(g) ==
    CASE g = "code_validation" ->
            {<<"validate_code", "accept">>, <<"validate_code", "generate_code">>}
      [] g = "server_js" ->
            {<<"generate_code", t>> : t \in MappingKeys(g, "generate_code")}
      [] g = "solution_html" ->
            {<<"generate_code", t>> : t \in MappingKeys(g, "generate_code")}
                \cup {<<"validate_solution", t>> : t \in MappingKeys(g, "validate_solution")}
      [] g = "gestalt_generator" ->
            {<<"generate_question_html", b>> : b \in BranchNodes}
      [] OTHER -> {}

\* variant of GotoEdges: a Command's goto adds no edge
GotoEdges_none(g) == {}

\* the goto of the Commands: graph.py:48-54, question_html_graph.py:77-80,
\* server_js_graph.py:88-91, solution_html_graph.py:70-73
GotoEdges(g) ==
    CASE g = "code_validation" -> {<<"generate_code", GenerateGoto>>}
      [] g \in SubGraphs -> {<<"retrieve_examples", RetrieveGoto>>}
      [] OTHER -> {}

\* the edges a walk may follow
WalkEdges(g, mode) ==
    StaticEdges(g) \cup ConditionalEdges(g)
        \cup (IF mode = "with_goto" THEN GotoEdges(g) ELSE {})

\* the edges that leave START
StartEdges(g) == {e \in StaticEdges(g) \cup ConditionalEdges(g) : e[1] = "START"}

\* a walk from START over one graph, by its declared edges only or by its
\* declared edges and goto targets
InitWalk ==
    /\ w_graph \in Graphs
    /\ w_mode \in {"declared", "with_goto"}
    /\ w_visited = {"START"}

\* follow one edge from a visited node to a node not yet visited
WalkEdge ==
    /\ w_graph \in Graphs
    /\ \E e \in WalkEdges(w_graph, w_mode) :
        /\ e[1] \in w_visited
        /\ e[2] \notin w_visited
        /\ w_visited' = w_visited \cup {e[2]}
    /\ UNCHANGED <<w_graph, w_mode>>
    /\ UNCHANGED <<loopVars, genVars, subVars, sibVars>>

\* the walk has followed every edge it can
WalkDone ==
    /\ w_graph \in Graphs
    /\ \A e \in WalkEdges(w_graph, w_mode) : e[1] \in w_visited => e[2] \in w_visited

\* no walk
WalkIdle ==
    /\ w_graph = "none"
    /\ w_mode = "none"
    /\ w_visited = {}

(***************************************************************************)
(* One invocation of one of the compiled graphs, or a walk over one graph.  *)
(***************************************************************************)
\* no invocation of the refinement loop
LoopIdle ==
    /\ prompt = "validate"
    /\ generated_code = 0
    /\ validation_errors = <<>>
    /\ refinement_count = 0
    /\ final_code = 0
    /\ pc = "idle"
    /\ error = "none"
    /\ critic_raised = FALSE
    /\ trace = <<>>
    /\ verdicts = <<>>
    /\ artifacts = <<>>
    /\ gen_context = <<>>

\* no invocation of the top-level generator
GenIdle ==
    /\ isAdaptive = FALSE
    /\ metadata = None
    /\ question_html = 0
    /\ files = EmptyDict
    /\ g_pc = "idle"
    /\ g_running = {}
    /\ g_writes = EmptyDict
    /\ g_error = "none"
    /\ g_classified = None
    /\ g_dispatched = <<>>
    /\ g_executed = <<>>
    /\ g_returned = EmptyDict

Init ==
    \/ InitLoop /\ GenIdle /\ SubIdle /\ SibIdle /\ WalkIdle
    \/ LoopIdle /\ InitGen /\ SubIdle /\ SibIdle /\ WalkIdle
    \/ LoopIdle /\ GenIdle /\ InitSub /\ SibIdle /\ WalkIdle
    \/ LoopIdle /\ GenIdle /\ InitMeta /\ SibIdle /\ WalkIdle
    \/ LoopIdle /\ GenIdle /\ SubIdle /\ InitSiblings /\ WalkIdle
    \/ LoopIdle /\ GenIdle /\ SubIdle /\ SibIdle /\ InitWalk

Next ==
    \/ GenerateCode
    \/ GenerateCodeRaises
    \/ ValidateCode
    \/ ValidateCodeRaises
    \/ AcceptCode
    \/ ClassifyQuestion
    \/ ClassifyQuestionRaises
    \/ GenerateQuestionHtml
    \/ GenerateQuestionHtmlRaises
    \/ \E node \in BranchNodes : BranchReturns(node)
    \/ \E node \in BranchNodes : BranchRaises(node)
    \/ MergeBranches
    \/ GenerateInfoJson
    \/ RetrieveExamples
    \/ RetrieveExamplesRaises
    \/ SubGenerateCode
    \/ SubGenerateCodeRaises
    \/ GenerateQuestionMetadata
    \/ GenerateQuestionMetadataRaises
    \/ \E node \in LoopNodes : InvokeRefinement(node)
    \/ \E node \in LoopNodes : RefinementFails(node)
    \/ \E node \in LoopNodes : NodeReturns(node)
    \/ \E b \in Sessions : SiblingValidate(b)
    \/ \E b \in Sessions : SiblingGenerate(b)
    \/ \E b \in Sessions : SiblingAccept(b)
    \/ WalkEdge

Spec == Init /\ [][Next]_vars

\* every call of a task function returns or raises: a node that is scheduled
\* is eventually executed
FairSpec == Spec /\ WF_vars(Next)

(***************************************************************************)
(* Properties of the refinement loop.                                      *)
(***************************************************************************)
AllCritiquesReportErrors == \A i \in DOMAIN verdicts : verdicts[i] # <<>>

\* C1: when every critique so far reported at least one error, generate_code
\* has run at most 3 times, and an invocation that has ended ran it exactly
\* 3 times and returns the artifact of the 3rd run as final_code.
C1_AlwaysErrorsThreeGenerations ==
    (pc # "idle" /\ AllCritiquesReportErrors) =>
        /\ genCount <= 3
        /\ pc = "END" => (genCount = 3 /\ final_code = artifacts[3])

\* an invocation whose critiques all reported errors has ended, and its 3rd
\* artifact differs from the 2nd and from the code it was given
C1_Witness ==
    /\ pc = "END"
    /\ AllCritiquesReportErrors
    /\ genCount = 3
    /\ artifacts[3] # artifacts[2]
    /\ final_code = artifacts[3]

\* C2: an invocation whose first critique reported no errors ends after
\* exactly 1 execution of generate_code.
C2_FirstCritiqueCleanOneGeneration ==
    (pc = "END" /\ verdicts[1] = <<>>) => genCount = 1

\* C3: after a critique the loop goes to accept exactly when the verdict just
\* returned carries no errors or refinement_count has reached 3.
C3_RouteOnLatestVerdict ==
    pc \in {"accept", "generate_code"} =>
        (pc = "accept" <=> (Last(verdicts) = <<>> \/ refinement_count >= 3))

\* C4: a generate_code execution that follows a critique reporting errors has
\* the accumulated validation errors in its prompt.
C4_ErrorsReachEveryGeneration ==
    (pc = "validate_code" /\ genCount >= 1 /\ Last(verdicts) # <<>>) =>
        gen_context = validation_errors

\* C5: when the critic raises, the invocation completes normally with
\* final_code equal to the current generated_code and raises nothing.
C5_CriticFailureAccepts ==
    critic_raised =>
        /\ error = "none"
        /\ pc \in {"accept", "END"}
        /\ pc = "END" => final_code = generated_code

\* C6: the first node the loop executes is generate_code (so a validate_code
\* execution always has a generate_code execution before it).
C6_StartsGenerating ==
    trace # <<>> => trace[1] = "generate_code"

\* C7: whatever the critic does, generate_code runs at most 3 times and the
\* invocation ends in accept.
C7_AnyCriticReachesAccept ==
    /\ genCount <= 3
    /\ (pc \in {"END", "failed"} /\ error # "GeneratorError") => acceptCount = 1

\* C8: every generate_code execution adds exactly 1 to refinement_count and
\* schedules validate_code; in the order of executed nodes generate_code is
\* always followed by validate_code, never by accept or by the end.
C8_GenerateIncrementsThenValidates ==
    /\ [][Len(artifacts') > Len(artifacts) =>
            /\ refinement_count' = refinement_count + 1
            /\ pc' = "validate_code"]_vars
    /\ [](\A i \in DOMAIN trace :
            trace[i] = "generate_code" =>
                IF i < Len(trace) THEN trace[i + 1] = "validate_code"
                ELSE pc = "validate_code" \/ error = "CriticError")

\* generate_code has run and the critique scheduled after it has run too
C8_Witness ==
    /\ Len(trace) >= 3
    /\ trace[2] = "generate_code"
    /\ trace[3] = "validate_code"
    /\ refinement_count = 1

\* C9: accept copies generated_code into final_code and ends the invocation:
\* after it final_code = generated_code, accept has run exactly once, it was
\* the last node, and nothing runs afterwards.
C9_AcceptCopiesAndEnds ==
    /\ [](pc = "END" =>
            /\ final_code = generated_code
            /\ acceptCount = 1
            /\ Last(trace) = "accept")
    /\ [](acceptCount <= 1)
    /\ [][pc = "accept" => (final_code' = generated_code /\ pc' = "END")]_vars
    /\ [][pc = "END" =>
            \/ UNCHANGED loopVars
            \/ pc' = StartNode /\ trace' = <<>>]_vars

\* an invocation that generated at least once has been accepted with an
\* artifact that differs from the final_code it was started with
C9_Witness ==
    /\ pc = "END"
    /\ genCount >= 1
    /\ final_code # 0
    /\ final_code = generated_code

(***************************************************************************)
(* Properties of the top-level generator.                                  *)
(***************************************************************************)
OneBranch == <<"generate_solution_html">>
ThreeBranches == <<"generate_server_py", "generate_server_js", "generate_solution_html">>

\* the branch nodes that have returned
ExecutedBranches == {n \in BranchNodes : Count(g_executed, n) > 0}

\* C10 as stated: the branches dispatched after generate_question_html follow
\* metadata.isAdaptive: one branch when it is false, three when it is true.
C10_WidthFollowsClassification ==
    g_pc \in {"branches", "generate_info_json", "END"} =>
        g_dispatched = IF metadata[1].isAdaptive THEN ThreeBranches ELSE OneBranch

\* C10 amended: the branches dispatched after generate_question_html follow
\* the isAdaptive field of the state, which the caller supplies: exactly
\* generate_solution_html when it is false, exactly the three branch nodes
\* when it is true; each dispatched branch runs once before
\* generate_info_json, and no other branch runs.
C10_WidthFollowsCallerFlag ==
    /\ g_pc \in {"branches", "generate_info_json", "END"} =>
        g_dispatched = IF isAdaptive THEN ThreeBranches ELSE OneBranch
    /\ ExecutedBranches \subseteq Range(g_dispatched)
    /\ \A n \in BranchNodes : Count(g_executed, n) <= 1
    /\ g_pc \in {"generate_info_json", "END"} =>
        /\ ExecutedBranches = Range(g_dispatched)
        /\ Cardinality(ExecutedBranches) = IF isAdaptive THEN 3 ELSE 1

\* the classification said non-adaptive, the caller said adaptive, and three
\* branches have run
C10_Witness ==
    /\ g_pc = "END"
    /\ isAdaptive
    /\ ~metadata[1].isAdaptive
    /\ Cardinality(ExecutedBranches) = 3

\* the files keys of a non-adaptive and of an adaptive module
StaticKeys == {"question.html", "solution.html", "info.json"}
AdaptiveKeys == StaticKeys \cup {"server.py", "server.js"}

\* C11: an invocation of the top-level generator that has ended returns files
\* with exactly the keys question.html, solution.html, info.json when the
\* caller's isAdaptive is false, and those plus server.py and server.js when
\* it is true.
C11_FilesKeySet ==
    g_pc = "END" =>
        /\ DOMAIN files = IF isAdaptive THEN AdaptiveKeys ELSE StaticKeys
        /\ ("server.py" \in DOMAIN files) <=> isAdaptive
        /\ ("server.js" \in DOMAIN files) <=> isAdaptive

\* a non-adaptive invocation that the model classified as adaptive has ended
\* with three files
C11_Witness ==
    /\ g_pc = "END"
    /\ ~isAdaptive
    /\ g_classified = Some(TRUE)
    /\ DOMAIN files = StaticKeys

\* C12: generate_info_json runs once, after every dispatched branch has
\* returned and its files entry has been merged; it is the last node.
C12_JoinAfterAllBranches ==
    /\ g_pc = "generate_info_json" =>
        /\ g_running = {}
        /\ \A n \in Range(g_dispatched) :
            /\ Count(g_executed, n) = 1
            /\ branch_file(n) \in DOMAIN files
            /\ files[branch_file(n)] = g_returned[n]
    /\ Count(g_executed, "generate_info_json") <= 1
    /\ g_pc = "END" =>
        /\ Count(g_executed, "generate_info_json") = 1
        /\ Last(g_executed) = "generate_info_json"

\* the join is about to run after three branches of which the one declared
\* last returned first
C12_Witness ==
    /\ g_pc = "generate_info_json"
    /\ Len(g_executed) = 5
    /\ g_executed[3] = "generate_solution_html"
    /\ DOMAIN files = AdaptiveKeys \ {"info.json"}

\* C13: the final state is a function of the inputs and of what each node
\* returned, not of the order in which the branches returned: every branch's
\* artifact is under its own key, question.html holds the question HTML,
\* info.json the rollup, and metadata and isAdaptive are what they were when
\* the branches were dispatched.
C13_FinalStateIndependentOfOrder ==
    g_pc = "END" =>
        /\ DOMAIN files = {"question.html", "info.json"}
                            \cup {branch_file(n) : n \in Range(g_dispatched)}
        /\ \A n \in Range(g_dispatched) : files[branch_file(n)] = g_returned[n]
        /\ files["question.html"] = question_html
        /\ files["info.json"] = info_json(isAdaptive, metadata[1])
        /\ metadata = Some([isAdaptive |-> g_classified[1]])

\* an invocation has ended whose branches returned in an order that is not
\* the order of their names, with different artifacts
C13_Witness ==
    /\ g_pc = "END"
    /\ g_executed[3] = "generate_solution_html"
    /\ g_executed[4] = "generate_server_py"
    /\ g_executed[5] = "generate_server_js"
    /\ g_returned["generate_server_py"] # g_returned["generate_server_js"]

\* C14: when a branch fails the invocation ends in that error:
\* generate_info_json does not run, nothing more happens, and files holds no
\* contribution of a branch.
C14_BranchFailureFailsInvocation ==
    /\ [](g_error # "none" =>
            /\ g_pc = "failed"
            /\ Count(g_executed, "generate_info_json") = 0
            /\ \A k \in DOMAIN files : k = "question.html")
    /\ [][g_pc = "failed" => UNCHANGED genVars]_vars

\* a branch failed after a sibling had returned its artifact
C14_Witness ==
    /\ g_pc = "failed"
    /\ Len(g_executed) >= 3
    /\ g_executed[3] \in BranchNodes
    /\ DOMAIN g_returned # {}
    /\ DOMAIN files = {"question.html"}

(***************************************************************************)
(* Properties of the graphs that wrap the refinement loop.                 *)
(***************************************************************************)
SubNodes == {"retrieve_examples", "generate_code"} \cup LoopNodes

\* C15: no node and no router reads a field that is absent: a node that is
\* about to run finds every field it reads in the state, and no invocation
\* has failed with the KeyError of a read of an absent field.
C15_EveryFieldReadIsPresent ==
    /\ s_pc \in SubNodes => NodeReads(s_graph, s_pc) \subseteq DOMAIN s_state
    /\ s_error # "KeyError"

\* C16: every router returns, on every state it is called with, a key of the
\* mapping of its conditional edge: should_refine, the top-level router, and
\* solution_present and server_present of the wrapping graphs.
C16_RoutersTotalAndMapped ==
    /\ pc \in {"idle", "validate_code", "failed", "END"}
            \cup {e[2] : e \in ConditionalEdges("code_validation")}
    /\ Range(g_dispatched) \subseteq
            {e[2] : e \in ConditionalEdges("gestalt_generator")}
    /\ s_route # "none" =>
            \E from \in Range(s_executed) : s_route \in MappingKeys(s_graph, from)

RECURSIVE Flatten(_)
Flatten(ss) == IF ss = <<>> THEN <<>> ELSE Head(ss) \o Flatten(Tail(ss))

\* C17: a router sees the state after the update of the node it follows:
\* whenever should_refine has routed, its result is its value on the
\* validation_errors that include the critique just made and on the
\* refinement_count written by the latest generate_code; the top-level
\* router has routed only with question.html already merged into files.
C17_RouterSeesPostUpdateState ==
    /\ pc \in {"accept", "generate_code"} =>
        /\ verdicts # <<>>
        /\ validation_errors = Flatten(verdicts)
        /\ refinement_count = genCount
        /\ pc = should_refine(refinement_count, validation_errors)
    /\ g_dispatched # <<>> =>
        /\ "question.html" \in DOMAIN files
        /\ files["question.html"] = question_html
        /\ g_dispatched = router(isAdaptive, metadata)

\* the first critique of an invocation reported errors and the loop has been
\* routed to generate_code by them
C17_Witness ==
    /\ pc = "generate_code"
    /\ Len(verdicts) = 1
    /\ refinement_count = 0
    /\ validation_errors # <<>>

\* C18: every invocation of the loop starts with refinement_count = 0 and no
\* validation_errors, and sees the generations and the errors of its own
\* history only, whether it follows another invocation or runs beside one.
C18_FreshSessionPerInvocation ==
    /\ (pc = StartNode /\ trace = <<>>) =>
            (refinement_count = 0 /\ validation_errors = <<>>)
    /\ pc # "idle" =>
            (refinement_count = genCount /\ validation_errors = Flatten(verdicts))
    /\ \A b \in DOMAIN sess :
        /\ sess[b].refinement_count = sess[b].gens
        /\ Len(sess[b].validation_errors) = sess[b].reported
        /\ \A i \in DOMAIN sess[b].validation_errors :
                sess[b].validation_errors[i] = SessionError(b)

\* improve_code of the server-JS graph has just invoked the loop after the
\* invocation made by validate_solution had collected errors and generated
C18_Witness ==
    /\ s_graph = "server_js"
    /\ s_pc = "improve_code"
    /\ s_calling
    /\ s_dirty
    /\ pc = StartNode
    /\ trace = <<>>
    /\ generated_code \in Codes

\* C19: a failure of retrieval or generation, in a wrapping graph or in the
\* loop a node of it invoked, fails the invocation of the wrapping graph:
\* the node that invoked the loop does not return, no later node runs, the
\* invocation never reaches END, and nothing happens after the failure.
C19_TaskFailurePropagates ==
    /\ [](s_error \in {"TaskError", "GeneratorError"} => s_pc = "failed")
    /\ [][(s_calling /\ pc = "failed" /\ error = "GeneratorError") =>
            /\ s_pc' = "failed"
            /\ s_error' = "GeneratorError"
            /\ s_executed' = s_executed
            /\ s_state' = s_state]_vars
    /\ [][s_pc = "failed" => UNCHANGED <<loopVars, subVars>>]_vars
    /\ [][g_pc = "failed" => UNCHANGED <<g_pc, g_executed, files>>]_vars

\* generate_code failed inside the loop invoked by improve_code of the
\* server-JS graph, itself invoked by a node of the top-level generator,
\* after validate_solution had returned
C19_Witness ==
    /\ s_graph = "server_js"
    /\ s_caller = "gestalt_generator"
    /\ s_pc = "failed"
    /\ s_error = "GeneratorError"
    /\ s_calling
    /\ s_executed = <<"retrieve_examples", "generate_code", "validate_solution">>

\* C20 as stated: a walk from START over the static edges and the
\* conditional-edge mappings of a graph visits every node of the graph, and
\* one edge leaves START.
C20_ReachableThroughDeclaredEdges ==
    (w_mode = "declared" /\ WalkDone) =>
        /\ GraphNodes(w_graph) \subseteq w_visited
        /\ Cardinality(StartEdges(w_graph)) = 1

\* C20 amended: a walk from START over the static edges, the
\* conditional-edge mappings and the goto targets of the Commands of a graph
\* visits every node of the graph, and one edge leaves START.
C20_ReachableThroughEdgesAndGoto ==
    (w_mode = "with_goto" /\ WalkDone) =>
        /\ GraphNodes(w_graph) \subseteq w_visited
        /\ Cardinality(StartEdges(w_graph)) = 1

\* the walk over the solution-HTML graph is complete and has visited
\* generate_code, which only the goto of retrieve_examples leads to, and the
\* nodes behind it
C20_Witness ==
    /\ w_graph = "solution_html"
    /\ w_mode = "with_goto"
    /\ WalkDone
    /\ {"generate_code", "validate_server"} \subseteq w_visited

(***************************************************************************)
(* Frame of the aggregation node and the override of the metadata graph.   *)
(***************************************************************************)
\* C21: generate_info_json adds the info.json entry to files and changes
\* nothing else: every entry files had keeps its value, and question_html,
\* metadata and isAdaptive are what they were.
C21_InfoJsonWritesOnlyInfoJson ==
    [][(g_pc = "generate_info_json" /\ g_pc' # g_pc) =>
        /\ DOMAIN files' = DOMAIN files \cup {"info.json"}
        /\ \A k \in DOMAIN files : k # "info.json" => files'[k] = files[k]
        /\ question_html' = question_html
        /\ metadata' = metadata
        /\ isAdaptive' = isAdaptive]_vars

\* the aggregation node has run after three branches, and the four files
\* written before it hold what the nodes returned
C21_Witness ==
    /\ g_pc = "END"
    /\ Last(g_executed) = "generate_info_json"
    /\ DOMAIN files = AdaptiveKeys
    /\ files["question.html"] = question_html
    /\ question_html # 0
    /\ \A n \in BranchNodes : files[branch_file(n)] = g_returned[n]

\* C22: the metadata graph returns metadata whose isAdaptive is the input
\* isAdaptive when that is not None, whatever the model classified, and the
\* model's classification when it is None.
C22_InputFlagOverridesClassification ==
    (s_graph = "question_metadata" /\ s_pc = "END") =>
        /\ s_state["metadata"] # None
        /\ s_state["isAdaptive"] # None =>
                s_state["metadata"][1].isAdaptive = s_state["isAdaptive"][1]
        /\ s_state["isAdaptive"] = None =>
                s_state["metadata"][1].isAdaptive = g_classified[1]

\* the metadata graph has returned the input flag False although the model
\* classified the question as adaptive
C22_Witness ==
    /\ s_graph = "question_metadata"
    /\ s_pc = "END"
    /\ s_state["isAdaptive"] = Some(FALSE)
    /\ g_classified = Some(TRUE)
    /\ s_state["metadata"] = Some([isAdaptive |-> FALSE])

(***************************************************************************)
(* The counter, the errors and the frame of the refinement loop.           *)
(***************************************************************************)
\* a new invocation of the loop has just been started
LoopRestarts == pc' = StartNode /\ trace' = <<>>

\* C23: refinement_count is between 0 and 3, it never decreases within an
\* invocation, and generate_code is never about to run with
\* refinement_count >= 3.
C23_CounterBounded ==
    /\ [](refinement_count \in 0..3)
    /\ [](pc = "generate_code" => refinement_count < 3)
    /\ [][refinement_count' >= refinement_count \/ LoopRestarts]_vars

\* the ceiling has stopped an invocation whose third artifact the critic
\* still found errors in
C23_Witness ==
    /\ pc = "accept"
    /\ refinement_count = 3
    /\ Len(verdicts) = 4
    /\ verdicts[4] # <<>>

\* a is a prefix of b
IsPrefix(a, b) == Len(a) <= Len(b) /\ a = SubSeq(b, 1, Len(a))

\* C24: validation_errors is the concatenation, in critique order, of the
\* error lists of the critiques made so far, and a step of an invocation
\* only extends it at its end.
C24_ErrorsAccumulateInOrder ==
    /\ [](pc # "idle" => validation_errors = Flatten(verdicts))
    /\ [](Len(validation_errors) = Len(Flatten(verdicts)))
    /\ [][IsPrefix(validation_errors, validation_errors') \/ LoopRestarts]_vars

\* two critiques have reported different error lists, the first of them two
\* errors, and validation_errors holds the three errors in that order
C24_Witness ==
    /\ Len(verdicts) = 2
    /\ Len(verdicts[1]) = 2
    /\ Len(verdicts[2]) = 1
    /\ verdicts[2][1] # verdicts[1][1]
    /\ validation_errors = <<verdicts[1][1], verdicts[1][2], verdicts[2][1]>>

\* some critique of the invocation reported an error
SomeCritiqueReportedErrors == \E i \in DOMAIN verdicts : verdicts[i] # <<>>

C27_NodesChangeOwnFields ==
    /\ [][trace' = Append(trace, "generate_code") =>
            UNCHANGED <<prompt, validation_errors, final_code>>]_vars
    /\ [][trace' = Append(trace, "validate_code") =>
            UNCHANGED <<prompt, generated_code, refinement_count, final_code>>]_vars
    /\ [][trace' = Append(trace, "accept") =>
            UNCHANGED <<prompt, generated_code, validation_errors,
                        refinement_count>>]_vars
    /\ [][prompt' = prompt \/ LoopRestarts]_vars

\* the three nodes have run and each has changed its field: the code, the
\* counter, the errors and final_code all differ from the input state
C27_Witness ==
    /\ pc = "END"
    /\ prompt = "improve"
    /\ generated_code = NumCodes
    /\ refinement_count = 3
    /\ validation_errors # <<>>
    /\ final_code = NumCodes

(***************************************************************************)
(* The order of the nodes of the wrapping graphs.                          *)
(***************************************************************************)
\* the question of the invocation has a solution guide
HasGuide == s_state["question"].solution_guide # 0

\* C28: the server-JS graph runs retrieve_examples, generate_code,
\* validate_solution exactly when the question has a solution guide, then
\* improve_code; a completed invocation ran improve_code once, last, and its
\* server_js is the final_code of the loop improve_code invoked.
C28_ServerJsOrder ==
    s_graph = "server_js" =>
        /\ IsPrefix(s_executed,
                    IF HasGuide
                    THEN <<"retrieve_examples", "generate_code",
                           "validate_solution", "improve_code">>
                    ELSE <<"retrieve_examples", "generate_code", "improve_code">>)
        /\ s_pc = "validate_solution" => HasGuide
        /\ s_pc = "END" =>
            /\ Last(s_executed) = "improve_code"
            /\ Count(s_executed, "improve_code") = 1
            /\ Count(s_executed, "validate_solution") = (IF HasGuide THEN 1 ELSE 0)
            /\ prompt = LoopPrompt("improve_code")
            /\ pc = "END"
            /\ s_state["server_js"] = final_code

\* an invocation with a solution guide has completed after both loops, and
\* the server_js it returns is an artifact generated in improve_code's loop
C28_Witness ==
    /\ s_graph = "server_js"
    /\ s_pc = "END"
    /\ HasGuide
    /\ Len(s_executed) = 4
    /\ genCount = 3
    /\ s_state["server_js"] = artifacts[3]
    /\ artifacts[3] # FirstDraft

\* C29: in the solution-HTML graph validate_solution runs exactly when the
\* question has a solution guide; validate_server runs only after
\* validate_solution and with a non-empty server_file; without a guide the
\* invocation ends after generate_code with the solution_html generate_code
\* wrote, no loop having been invoked, whatever server_file is.
C29_SolutionHtmlOrder ==
    s_graph = "solution_html" =>
        /\ (s_pc = "validate_solution" \/ Count(s_executed, "validate_solution") > 0)
                => HasGuide
        /\ (s_pc = "END" /\ HasGuide) => Count(s_executed, "validate_solution") = 1
        /\ (s_pc = "validate_server" \/ Count(s_executed, "validate_server") > 0) =>
            /\ Count(s_executed, "validate_solution") = 1
            /\ "server_file" \in DOMAIN s_state
            /\ s_state["server_file"] # 0
        /\ (s_pc = "END" /\ ~HasGuide) =>
            /\ s_executed = <<"retrieve_examples", "generate_code">>
            /\ s_state["solution_html"] = FirstDraft
            /\ pc = "idle"
            /\ s_route = "END"

\* an invocation without a solution guide has ended right after generate_code
\* although a server_file was supplied
C29_Witness ==
    /\ s_graph = "solution_html"
    /\ s_pc = "END"
    /\ ~HasGuide
    /\ "server_file" \in DOMAIN s_state
    /\ s_state["server_file"] # 0
    /\ s_executed = <<"retrieve_examples", "generate_code">>

\* C30: in the three wrapping graphs retrieve_examples runs once and first,
\* generate_code once and right after it, on the formatted_examples
\* retrieve_examples wrote, and the invocation does not end between the two.
C30_RetrieveThenGenerate ==
    /\ [](s_graph \in SubGraphs =>
            /\ Count(s_executed, "retrieve_examples") <= 1
            /\ Count(s_executed, "generate_code") <= 1
            /\ Len(s_executed) >= 1 => s_executed[1] = "retrieve_examples"
            /\ Len(s_executed) >= 2 => s_executed[2] = "generate_code"
            /\ s_pc = "generate_code" =>
                /\ s_executed = <<"retrieve_examples">>
                /\ s_state["formatted_examples"] = 1
            /\ s_pc = "END" => Len(s_executed) >= 2)
    /\ [][(s_graph \in SubGraphs /\ s_pc = "retrieve_examples") =>
            s_pc' \in {"retrieve_examples", "generate_code", "failed"}]_vars

\* the question-HTML graph has completed: generate_code ran after
\* retrieve_examples and wrote question_html
C30_Witness ==
    /\ s_graph = "question_html"
    /\ s_pc = "END"
    /\ s_executed = <<"retrieve_examples", "generate_code">>
    /\ s_state["formatted_examples"] = 1
    /\ s_state["question_html"] = FirstDraft

(***************************************************************************)
(* Order, assertions and rollup of the top-level generator.                *)
(***************************************************************************)
\* the fan-out has been dispatched
Dispatched == g_dispatched # <<>>

\* C31: classify_question runs first, generate_question_html second, the
\* branches after it, on the question whose question_html is the one
\* generate_question_html produced, and generate_info_json last.
C31_TopLevelOrder ==
    /\ [](Len(g_executed) >= 1 => g_executed[1] = "classify_question")
    /\ [](Len(g_executed) >= 2 => g_executed[2] = "generate_question_html")
    /\ [](\A i \in DOMAIN g_executed :
            /\ g_executed[i] \in BranchNodes => (i >= 3 /\ i <= 2 + Len(g_dispatched))
            /\ g_executed[i] = "generate_info_json" =>
                    (i = Len(g_executed) /\ i = 3 + Len(g_dispatched) /\ g_pc = "END"))
    /\ [](g_pc = "branches" =>
            /\ question_html \in Codes
            /\ files["question.html"] = question_html)
    /\ [][g_pc = "branches" => question_html' = question_html]_vars

\* three branches are running on the question HTML generate_question_html
\* wrote, and none has returned yet
C31_Witness ==
    /\ g_pc = "branches"
    /\ g_executed = <<"classify_question", "generate_question_html">>
    /\ Cardinality(g_running) = 3
    /\ question_html = NumCodes
    /\ files = Entry("question.html", NumCodes)

\* C32: no assertion on metadata fails: whenever generate_question_html, a
\* branch, the router or generate_info_json is about to run or has run,
\* classify_question has written a metadata that is not None.
C32_MetadataAssertionsHold ==
    /\ g_error # "AssertionError"
    /\ g_pc \in {"generate_question_html", "branches", "generate_info_json", "END"} =>
        /\ metadata # None
        /\ g_executed[1] = "classify_question"
        /\ metadata[1].isAdaptive = g_classified[1]

\* generate_question_html is about to run its assertion on the metadata
\* classify_question wrote, which contradicts the caller's flag
C32_Witness ==
    /\ g_pc = "generate_question_html"
    /\ metadata = Some([isAdaptive |-> TRUE])
    /\ ~isAdaptive
    /\ g_error = "none"

\* the languages generate_info_json writes for an adaptive question
BothLanguages == <<"javascript", "python">>

\* C33: in a final state info.json has the caller's isAdaptive, whatever the
\* metadata says, and its languages are javascript and python exactly when
\* files holds server.js and server.py, and none otherwise.
C33_InfoJsonMatchesFiles ==
    g_pc = "END" =>
        /\ files["info.json"].isAdaptive = isAdaptive
        /\ files["info.json"].languages \in {BothLanguages, <<>>}
        /\ files["info.json"].languages = BothLanguages <=>
                {"server.js", "server.py"} \subseteq DOMAIN files

\* a final state whose info.json lists both languages, with both server
\* files produced, although the classification found the question static
C33_Witness ==
    /\ g_pc = "END"
    /\ g_classified = Some(FALSE)
    /\ files["info.json"].isAdaptive
    /\ files["info.json"].languages = BothLanguages
    /\ {"server.js", "server.py"} \subseteq DOMAIN files

\* the files keys of the updates waiting for the end of the fan-out
PendingKeys(n) == DOMAIN g_writes[n]

\* C34: the branches write files only, each under its own key, so that no
\* two updates of the fan-out hold the same key, and question_html, metadata
\* and isAdaptive are not written once generate_question_html has returned.
C34_BranchesWriteDisjointKeys ==
    /\ [](\A a, b \in DOMAIN g_writes :
            a # b => PendingKeys(a) \cap PendingKeys(b) = {})
    /\ [](\A a \in DOMAIN g_writes :
            PendingKeys(a) \subseteq AdaptiveKeys \ {"question.html", "info.json"})
    /\ [][Dispatched => UNCHANGED <<question_html, metadata, isAdaptive>>]_vars

\* the updates of three branches wait for the end of the fan-out
C34_Witness ==
    /\ g_pc = "branches"
    /\ g_running = {}
    /\ DOMAIN g_writes = BranchNodes
    /\ PendingKeys("generate_server_js") = {"server.js"}
    /\ PendingKeys("generate_server_py") = {"server.py"}
    /\ PendingKeys("generate_solution_html") = {"solution.html"}

(***************************************************************************)
(* Termination.                                                            *)
(***************************************************************************)
\* nothing is scheduled any more: every graph that was invoked has reached
\* END or has failed
Terminated ==
    /\ g_pc \in {"idle", "END", "failed"}
    /\ s_pc \in {"idle", "END", "failed"}
    /\ pc \in {"idle", "END", "failed"}
    /\ \A b \in DOMAIN sess : sess[b].pc = "END"
    /\ w_graph \in Graphs => WalkDone

\* the refinement loops the wrapping graph has invoked so far
LoopsInvoked ==
    Cardinality({i \in DOMAIN s_executed : s_executed[i] \in LoopNodes})
        + (IF s_calling THEN 1 ELSE 0)

\* C35: every invocation terminates, and until then every node of the
\* top-level generator has run at most once, every refinement loop has run
\* generate_code at most 3 times, and the server-JS graph has invoked at
\* most two refinement loops.
C35_InvocationTerminates ==
    /\ <>[]Terminated
    /\ [](\A n \in GraphNodes("gestalt_generator") : Count(g_executed, n) <= 1)
    /\ [](Len(g_executed) <= 6)
    /\ [](genCount <= 3 /\ \A b \in DOMAIN sess : sess[b].gens <= 3)
    /\ [](s_graph = "server_js" => LoopsInvoked <= 2)

\* the server-JS graph has terminated after two refinement loops, the second
\* of which ran generate_code 3 times
C35_Witness ==
    /\ Terminated
    /\ s_graph = "server_js"
    /\ s_pc = "END"
    /\ LoopsInvoked = 2
    /\ s_dirty
    /\ genCount = 3

====
